---------------------------- MODULE Spec2Model ----------------------------
(***************************************************************************)
(* go-viewset: a generic CRUD ViewSet (gin + gorm) with pagination,        *)
(* filtering and ordering helpers, and a User specialization.              *)
(*                                                                         *)
(* Strings of the program are sequences of code points (Go runes), so that *)
(* the character tests of the code are the comparisons the code makes.     *)
(* Query-parameter names are atomic strings: the code only compares them.  *)
(***************************************************************************)
EXTENDS Integers, Sequences, FiniteSets, TLC

VARIABLES
    pagReq,     \* query mapping handed to GetPaginationParams
    pagOut,     \* the PaginationParams it returned and the OFFSET/LIMIT applied
    fltReq,     \* query mapping and excludeKeys handed to GetFilterParams
    fltOut,     \* the FilterParams it returned and the clauses ApplyFilters added
    sanIn,      \* input of sanitizeOrderBy
    sanOut,     \* its result
    mounted,    \* which RegisterRoutes built the route table
    routes,     \* the gin route table of the group
    rows,       \* the users table: id -> row (soft-deleted rows included)
    nextId,     \* next auto-increment primary key
    req,        \* the request handled last
    before,     \* the users table as it was when that request arrived
    resp,       \* the response written for it
    calls       \* the handlers running concurrently: each one's position and locals

pureVars == <<pagReq, pagOut, fltReq, fltOut, sanIn, sanOut>>
pagVars == <<pagReq, pagOut>>
fltVars == <<fltReq, fltOut>>
sanVars == <<sanIn, sanOut>>
srvVars == <<mounted, routes, rows, nextId, req, before, resp, calls>>
vars == <<pagReq, pagOut, fltReq, fltOut, sanIn, sanOut,
          mounted, routes, rows, nextId, req, before, resp, calls>>

None == "none"

-----------------------------------------------------------------------------
(* Bounds *)

\* width of Go's int in the model (64 in the build); arithmetic wraps at it
IntBits == 16
\* longest raw order field fed to sanitizeOrderBy
MaxLen == 3
\* longest well-formed field name in order_by / ordering requests
MaxFieldLen == 2
\* most rows ever inserted into the users table
MaxRows == 2
\* requests handled concurrently
NProcs == 2

-----------------------------------------------------------------------------
(* Go int and strconv.Atoi *)

RECURSIVE Pow2(_)
Pow2(n) == IF n = 0 THEN 1 ELSE 2 * Pow2(n - 1)

MaxInt == Pow2(IntBits - 1) - 1
MinInt == -Pow2(IntBits - 1)

\* two's-complement wrap-around of Go's signed int arithmetic
Wrap(x) == ((x + Pow2(IntBits - 1)) % Pow2(IntBits)) - Pow2(IntBits - 1)

IsDigit(r) == r >= 48 /\ r <= 57

\* magnitude of a digit string, saturating just past the int range
RECURSIVE Magnitude(_, _, _)
Magnitude(s, i, acc) ==
    IF i > Len(s) \/ acc > MaxInt + 1 THEN acc
    ELSE Magnitude(s, i + 1, acc * 10 + (s[i] - 48))

\* strconv.Atoi: [err |-> TRUE] on a syntax or range error, else the value
Atoi(s) ==
    LET signed == Len(s) > 0 /\ s[1] \in {43, 45}
        digits == IF signed THEN Tail(s) ELSE s
        mag    == Magnitude(digits, 1, 0)
        val    == IF signed /\ s[1] = 45 THEN -mag ELSE mag
    IN  IF Len(digits) = 0 \/ \E i \in 1..Len(digits) : ~IsDigit(digits[i])
        THEN [err |-> TRUE, val |-> 0]
        ELSE IF val > MaxInt \/ val < MinInt
        THEN [err |-> TRUE, val |-> 0]
        ELSE [err |-> FALSE, val |-> val]

\* decimal text of a natural number (strconv.Itoa), to write requests with
RECURSIVE Itoa(_)
Itoa(n) == IF n < 10 THEN <<48 + n>> ELSE Itoa(n \div 10) \o <<48 + (n % 10)>>

\* gin's c.Query: the first value of the parameter, "" when it is absent
Query(q, key) == IF key \in DOMAIN q THEN q[key][1] ELSE <<>>


\* url.Values of a request: f gives each parameter's list of values, and a
\* parameter with no value is absent from the mapping
QueryOf(f) == [k \in {x \in DOMAIN f : Len(f[x]) > 0} |-> f[k]]

-----------------------------------------------------------------------------
(* Pagination: GetPaginationParams, ApplyPagination, BuildPagination *)

DefaultPage == 1
DefaultPageSize == 10
MaxPageSize == 100
MaxLimit == 100

\* "err == nil && n > 0" of the page, page_size and limit branches
ParsedPositive(str) == str # <<>> /\ ~Atoi(str).err /\ Atoi(str).val > 0

\* "err == nil && offset >= 0" of the offset branch
ParsedNonNegative(str) == str # <<>> /\ ~Atoi(str).err /\ Atoi(str).val >= 0

ClampPageSize(n) == IF n > MaxPageSize THEN MaxPageSize ELSE n

ClampLimit(n) == IF n > MaxLimit THEN MaxLimit ELSE n

\* the last block: page/page_size derived from limit/offset, or the reverse
DerivePagination(p) ==
    IF p.Limit > 0
    THEN [p EXCEPT !.PageSize = p.Limit,
                   !.Page = IF p.Offset > 0
                            THEN Wrap((p.Offset \div p.Limit) + 1)
                            ELSE p.Page]
    ELSE [p EXCEPT !.Offset = Wrap((p.Page - 1) * p.PageSize),
                   !.Limit = p.PageSize]

GetPaginationParams(q) ==
    LET p0 == [Page |-> DefaultPage, PageSize |-> DefaultPageSize,
               Offset |-> 0, Limit |-> 0]
        pageStr == Query(q, "page")
        p1 == IF ParsedPositive(pageStr)
              THEN [p0 EXCEPT !.Page = Atoi(pageStr).val] ELSE p0
        pageSizeStr == Query(q, "page_size")
        p2 == IF ParsedPositive(pageSizeStr)
              THEN [p1 EXCEPT !.PageSize = ClampPageSize(Atoi(pageSizeStr).val)]
              ELSE p1
        limitStr == Query(q, "limit")
        p3 == IF ParsedPositive(limitStr)
              THEN [p2 EXCEPT !.Limit = ClampLimit(Atoi(limitStr).val)] ELSE p2
        offsetStr == Query(q, "offset")
        p4 == IF ParsedNonNegative(offsetStr)
              THEN [p3 EXCEPT !.Offset = Atoi(offsetStr).val] ELSE p3
    IN  DerivePagination(p4)

\* db.Offset(params.Offset).Limit(params.Limit) on a query description
ApplyPagination(query, params) ==
    [query EXCEPT !.offset = <<params.Offset>>, !.limit = <<params.Limit>>]

BuildPagination(params, total) ==
    [Page |-> params.Page, PageSize |-> params.PageSize, Total |-> total]

\* a query description before any clause is added (db.Model(...)): the
\* equality predicates, the keyword of the LIKE predicate, the ORDER BY
\* clauses, OFFSET and LIMIT (<<>> while not set)
BlankQuery ==
    [wheres |-> {}, keyword |-> <<>>, orders |-> <<>>, offset |-> <<>>, limit |-> <<>>]

-----------------------------------------------------------------------------
(* Filtering and ordering: GetFilterParams, ApplyFilters, sanitizeOrderBy *)

S_ASC == <<65, 83, 67>>
S_DESC == <<68, 69, 83, 67>>
S_asc == <<97, 115, 99>>
S_desc == <<100, 101, 115, 99>>
S_SP == <<32>>
S_MINUS == <<45>>

\* unicode.IsSpace on the code points of the model
IsSpace(r) == r \in {9, 10, 11, 12, 13, 32, 133, 160}

\* strings.Fields: the maximal runs of non-space characters
RECURSIVE FieldsFrom(_, _, _, _)
FieldsFrom(s, i, cur, acc) ==
    LET flushed == IF cur = <<>> THEN acc ELSE Append(acc, cur)
    IN  IF i > Len(s) THEN flushed
        ELSE IF IsSpace(s[i]) THEN FieldsFrom(s, i + 1, <<>>, flushed)
        ELSE FieldsFrom(s, i + 1, Append(cur, s[i]), acc)

Fields(s) == FieldsFrom(s, 1, <<>>, <<>>)

\* unicode.ToUpper on the code points of the model
ToUpperRune(r) ==
    IF r >= 97 /\ r <= 122 THEN r - 32
    ELSE IF r = 383 THEN 83
    ELSE IF r = 305 THEN 73
    ELSE r

ToUpper(s) == [i \in 1..Len(s) |-> ToUpperRune(s[i])]

\* excludeMap before the caller's keys are added
ReservedKeys == {"page", "page_size", "limit", "offset", "order_by", "ordering"}

\* a variant that keeps the last of a parameter's values
FirstValue_last(values) == values[Len(values)]

\* "params.Filters[key] = values[0]"
FirstValue(values) == values[1]

\* the keys the loop over c.Request.URL.Query() keeps
FilterKeys(q, excludeKeys) ==
    {k \in DOMAIN q : k \notin (ReservedKeys \cup excludeKeys) /\ Len(q[k]) > 0}

\* a variant that takes the direction as written, without ToUpper
OrderFromOrderBy_raw(orderBy) ==
    LET parts == Fields(orderBy)
    IN  IF Len(parts) > 0
        THEN [OrderBy |-> parts[1],
              OrderDir |-> IF Len(parts) > 1 THEN parts[2] ELSE S_ASC]
        ELSE [OrderBy |-> <<>>, OrderDir |-> <<>>]

\* the order_by branch: "<field> [<dir>]"
OrderFromOrderBy(orderBy) ==
    LET parts == Fields(orderBy)
    IN  IF Len(parts) > 0
        THEN [OrderBy |-> parts[1],
              OrderDir |-> IF Len(parts) > 1 THEN ToUpper(parts[2]) ELSE S_ASC]
        ELSE [OrderBy |-> <<>>, OrderDir |-> <<>>]

\* the ordering branch: "[-]<field>"
OrderFromOrdering(ordering) ==
    IF Len(ordering) > 0 /\ ordering[1] = 45
    THEN [OrderBy |-> Tail(ordering), OrderDir |-> S_DESC]
    ELSE [OrderBy |-> ordering, OrderDir |-> S_ASC]

\* a variant that lets an unknown direction through
ValidateDir_keep(dir) == dir

\* "if OrderDir != "" && OrderDir != ASC && OrderDir != DESC { OrderDir = ASC }"
ValidateDir(dir) == IF dir # <<>> /\ dir # S_ASC /\ dir # S_DESC THEN S_ASC ELSE dir

GetFilterParams(q, excludeKeys) ==
    LET filters == [k \in FilterKeys(q, excludeKeys) |-> FirstValue(q[k])]
        orderBy == Query(q, "order_by")
        ordering == Query(q, "ordering")
        ord == IF orderBy # <<>> THEN OrderFromOrderBy(orderBy)
               ELSE IF ordering # <<>> THEN OrderFromOrdering(ordering)
               ELSE [OrderBy |-> <<>>, OrderDir |-> <<>>]
    IN  [Filters |-> filters, OrderBy |-> ord.OrderBy,
         OrderDir |-> ValidateDir(ord.OrderDir)]

\* a variant whose digit range runs on to ':' and ';'
IsOrderChar_semicolon(r) ==
    (r >= 97 /\ r <= 122) \/ (r >= 65 /\ r <= 90) \/ (r >= 48 /\ r <= 59)
        \/ r = 95 \/ r = 46

\* the character test of sanitizeOrderBy
IsOrderChar(r) ==
    (r >= 97 /\ r <= 122) \/ (r >= 65 /\ r <= 90) \/ (r >= 48 /\ r <= 57)
        \/ r = 95 \/ r = 46

sanitizeOrderBy(field) == SelectSeq(field, IsOrderChar)

\* ApplyFilters on a query description: one "key = ?" predicate per filter
\* (a conjunction, so a set), and at most one ORDER BY clause
ApplyFilters(query, params) ==
    LET withWhere == [query EXCEPT !.wheres =
                         @ \cup {<<k, params.Filters[k]>> : k \in DOMAIN params.Filters}]
        orderClause == sanitizeOrderBy(params.OrderBy)
                         \o (IF params.OrderDir # <<>>
                             THEN S_SP \o params.OrderDir ELSE <<>>)
    IN  IF params.OrderBy # <<>>
        THEN [withWhere EXCEPT !.orders = Append(@, orderClause)]
        ELSE withWhere

-----------------------------------------------------------------------------
(* Response envelope: utils/response.go *)

NoData == [kind |-> "none"]

\* c.JSON(httpStatus, Response{...}): one envelope written to the client
Envelope(status, code, msg, data, pagination) ==
    [status |-> status, code |-> code, msg |-> msg, data |-> data,
     pagination |-> pagination]

Success(data) == Envelope(200, 0, "success", data, <<>>)

SuccessWithPagination(data, pagination) ==
    Envelope(200, 0, "success", data, <<pagination>>)

\* Error: an error code under HTTP status 200
Error(code, msg) == Envelope(200, code, msg, NoData, <<>>)

ErrorWithStatus(httpStatus, code, msg) == Envelope(httpStatus, code, msg, NoData, <<>>)

BadRequest(msg) == ErrorWithStatus(400, 400, msg)

\* a variant that answers through Error
NotFound_viaError(msg) == Error(404, msg)

NotFound(msg) == ErrorWithStatus(404, 404, msg)

InternalServerError(msg) == ErrorWithStatus(500, 500, msg)

-----------------------------------------------------------------------------
(* The User model and the storage engine behind *gorm.DB *)

S_active == <<97, 99, 116, 105, 118, 101>>
S_inactive == <<105, 110, 97, 99, 116, 105, 118, 101>>
S_A == <<65>>
S_B == <<66>>
S_ax == <<97, 64, 120>>
S_bx == <<98, 64, 120>>
S_ab == <<97, 98>>
S_1 == <<49>>

\* models.User without the timestamps; deleted stands for DeletedAt
BlankUser ==
    [id |-> 0, name |-> <<>>, email |-> <<>>, status |-> <<>>, age |-> 0,
     phone |-> <<>>, deleted |-> FALSE]

StringColumns == {"name", "email", "status", "phone"}
IntColumns == {"id", "age"}
Columns == StringColumns \cup IntColumns

LiveIds(table) == {i \in DOMAIN table : ~table[i].deleted}

\* binding:"required,email" : something before and after an @
IsEmail(str) == \E i \in 2..(Len(str) - 1) : str[i] = 64

\* c.ShouldBindJSON into a models.User: the body must be well-formed JSON and
\* carry the required name and a required, well-formed email
BindError(body) ==
    \/ body.malformed
    \/ body.user.name = <<>>
    \/ body.user.email = <<>>
    \/ ~IsEmail(body.user.email)

\* strings.Contains, the LIKE '%kw%' of the keyword search
Contains(str, kw) ==
    \E i \in 0..(Len(str) - Len(kw)) : SubSeq(str, i + 1, i + Len(kw)) = kw

\* "key = ?" on a row
MatchesWhere(row, w) ==
    IF w[1] \in StringColumns THEN row[w[1]] = w[2]
    ELSE ~Atoi(w[2]).err /\ row[w[1]] = Atoi(w[2]).val

\* the WHERE part of a query description on a live row
Matches(row, query) ==
    /\ \A w \in query.wheres : MatchesWhere(row, w)
    /\ query.keyword # <<>> =>
          \/ Contains(row.name, query.keyword[1])
          \/ Contains(row.email, query.keyword[1])
          \/ Contains(row.phone, query.keyword[1])

\* the column and direction an ORDER BY clause names
OrderColumn(clause) == IF Fields(clause) = <<>> THEN <<>> ELSE Fields(clause)[1]

ColumnOf(name) ==
    CASE name = <<97, 103, 101>> -> "age"
      [] name = <<110, 97, 109, 101>> -> "name"
      [] name = <<105, 100>> -> "id"
      [] OTHER -> "unknown"

\* the statement is one the engine rejects: a predicate on a column the
\* table does not have, or an ORDER BY without a known column
Rejected(query) ==
    \/ \E w \in query.wheres : w[1] \notin Columns
    \/ \E i \in 1..Len(query.orders) :
          \/ Len(query.orders[i]) = 0
          \/ IsSpace(query.orders[i][1])
          \/ ColumnOf(OrderColumn(query.orders[i])) = "unknown"

RECURSIVE SeqLess(_, _)
SeqLess(a, b) ==
    IF Len(b) = 0 THEN FALSE
    ELSE IF Len(a) = 0 THEN TRUE
    ELSE IF a[1] # b[1] THEN a[1] < b[1]
    ELSE SeqLess(Tail(a), Tail(b))

ValueLess(x, y, col) == IF col \in IntColumns THEN x < y ELSE SeqLess(x, y)

\* row a comes before row b under the query's ORDER BY (primary key order
\* without one, and among equal keys)
Before(a, b, query) ==
    IF Len(query.orders) = 0 THEN a.id < b.id
    ELSE LET col == ColumnOf(OrderColumn(query.orders[1]))
             desc == Len(Fields(query.orders[1])) > 1
                       /\ Fields(query.orders[1])[2] = S_DESC
         IN  IF a[col] = b[col] THEN a.id < b.id
             ELSE IF desc THEN ValueLess(b[col], a[col], col)
             ELSE ValueLess(a[col], b[col], col)

\* the matching live rows in the query's order
RECURSIVE SortedRows(_, _, _)
SortedRows(table, ids, query) ==
    IF ids = {} THEN <<>>
    ELSE LET first == CHOOSE i \in ids :
                         \A j \in ids \ {i} : Before(table[i], table[j], query)
         IN  <<table[first]>> \o SortedRows(table, ids \ {first}, query)

MatchingIds(table, query) == {i \in LiveIds(table) : Matches(table[i], query)}

\* query.Count(&total): the error is on the returned *gorm.DB
DBCount(table, query, fault) ==
    IF fault \/ Rejected(query)
    THEN [err |-> "fault", total |-> 0]
    ELSE [err |-> "nil", total |-> Cardinality(MatchingIds(table, query))]

\* the rows from position offset (none skipped unless offset > 0), at most limit
Window(list, offset, limit) ==
    LET skip == IF offset > 0 THEN offset ELSE 0
        last == IF skip + limit < Len(list) THEN skip + limit ELSE Len(list)
    IN  SubSeq(list, skip + 1, last)

\* query.Find(&results)
DBFind(table, query, fault) ==
    IF fault \/ Rejected(query)
    THEN [err |-> "fault", rows |-> <<>>]
    ELSE [err |-> "nil",
          rows |-> Window(SortedRows(table, MatchingIds(table, query), query),
                          IF query.offset = <<>> THEN 0 ELSE query.offset[1],
                          IF query.limit = <<>> THEN Len(table) ELSE query.limit[1])]

\* a variant without the soft-delete scope
FirstByKey_unscoped(table, key, fault) ==
    IF fault THEN [err |-> "fault", row |-> BlankUser]
    ELSE IF key \in DOMAIN table THEN [err |-> "nil", row |-> table[key]]
    ELSE [err |-> "notfound", row |-> BlankUser]

\* db.First(dest, n) with an integer primary key
FirstByKey(table, key, fault) ==
    IF fault THEN [err |-> "fault", row |-> BlankUser]
    ELSE IF key \in LiveIds(table) THEN [err |-> "nil", row |-> table[key]]
    ELSE [err |-> "notfound", row |-> BlankUser]

\* db.First(dest, id) with the path parameter as a string: the engine looks a
\* numeric string up as the primary key, and takes any other string as the
\* text of a condition, so the outcome is the engine's: odd is that outcome
FirstByString(table, id, fault, odd) ==
    IF fault THEN [err |-> "fault", row |-> BlankUser]
    ELSE IF ~Atoi(id).err THEN FirstByKey(table, Atoi(id).val, FALSE)
    ELSE IF odd \in LiveIds(table) THEN [err |-> "nil", row |-> table[odd]]
    ELSE IF odd = 0 THEN [err |-> "notfound", row |-> BlankUser]
    ELSE [err |-> "fault", row |-> BlankUser]

\* the unique index on email holds soft-deleted rows too
EmailTaken(table, email, except) ==
    \E i \in DOMAIN table \ {except} : table[i].email = email

\* gorm:"default:inactive" on Status
WithDefaults(user) == IF user.status = <<>> THEN [user EXCEPT !.status = S_inactive] ELSE user

\* a variant on a table without the unique index on email
DBCreate_noUnique(table, id, user, fault) ==
    IF fault
    THEN [err |-> "fault", table |-> table, row |-> user]
    ELSE LET row == [WithDefaults(user) EXCEPT !.id = id, !.deleted = FALSE]
         IN  [err |-> "nil", table |-> Append(table, row), row |-> row]

\* db.Create(obj): the row gets the next primary key and the column defaults
DBCreate(table, id, user, fault) ==
    IF fault \/ EmailTaken(table, user.email, 0)
    THEN [err |-> "fault", table |-> table, row |-> user]
    ELSE LET row == [WithDefaults(user) EXCEPT !.id = id, !.deleted = FALSE]
         IN  [err |-> "nil", table |-> Append(table, row), row |-> row]

\* Updates(struct) writes a field only when it is not the zero value
MergeField(old, new, zero) == IF new = zero THEN old ELSE new

Merge(row, updates) ==
    [row EXCEPT !.name = MergeField(@, updates.name, <<>>),
                !.email = MergeField(@, updates.email, <<>>),
                !.status = MergeField(@, updates.status, <<>>),
                !.age = MergeField(@, updates.age, 0),
                !.phone = MergeField(@, updates.phone, <<>>)]

\* a variant whose write takes effect although the call reports a fault
DBUpdates_dirty(table, existing, updates, fault) ==
    IF existing.id \in LiveIds(table)
    THEN [err |-> IF fault \/ EmailTaken(table, Merge(existing, updates).email,
                                         existing.id)
                  THEN "fault" ELSE "nil",
          table |-> [table EXCEPT ![existing.id] = Merge(@, updates)]]
    ELSE [err |-> IF fault THEN "fault" ELSE "nil", table |-> table]

\* db.Model(existing).Updates(updates): the live row with existing's key
DBUpdates(table, existing, updates, fault) ==
    IF fault \/ EmailTaken(table, Merge(existing, updates).email, existing.id)
    THEN [err |-> "fault", table |-> table]
    ELSE IF existing.id \in LiveIds(table)
    THEN [err |-> "nil",
          table |-> [table EXCEPT ![existing.id] = Merge(@, updates)]]
    ELSE [err |-> "nil", table |-> table]

\* db.Save(user): every column of the row with user's key is written
DBSave(table, user, fault) ==
    IF fault \/ EmailTaken(table, user.email, user.id)
    THEN [err |-> "fault", table |-> table]
    ELSE IF user.id \in DOMAIN table
    THEN [err |-> "nil", table |-> [table EXCEPT ![user.id] = user]]
    ELSE [err |-> "nil", table |-> table]

\* db.Delete(obj): a model with DeletedAt is soft-deleted
DBDelete(table, obj, fault) ==
    IF fault THEN [err |-> "fault", table |-> table]
    ELSE IF obj.id \in LiveIds(table)
    THEN [err |-> "nil", table |-> [table EXCEPT ![obj.id].deleted = TRUE]]
    ELSE [err |-> "nil", table |-> table]

-----------------------------------------------------------------------------
(* Route registration: GenericViewSet.RegisterRoutes, RegisterAction,
   UserViewSet.RegisterRoutes *)

Route(method, path, handler) == [method |-> method, path |-> path, handler |-> handler]

\* group.GET / POST / PUT / DELETE / PATCH (group.Any otherwise)
RegisterAction(table, method, path, handler) ==
    IF method \in {"GET", "POST", "PUT", "DELETE", "PATCH"}
    THEN table \cup {Route(method, path, handler)}
    ELSE table \cup {Route(m, path, handler) :
                       m \in {"GET", "POST", "PUT", "DELETE", "PATCH", "HEAD", "OPTIONS"}}

GenericViewSet_RegisterRoutes(table) ==
    table \cup { Route("GET", "/", "GenericViewSet.List"),
                 Route("GET", "/:id", "GenericViewSet.Retrieve"),
                 Route("POST", "/", "GenericViewSet.Create"),
                 Route("PUT", "/:id", "GenericViewSet.Update"),
                 Route("DELETE", "/:id", "GenericViewSet.Delete") }

UserViewSet_RegisterRoutes(table) ==
    LET crud == table \cup { Route("GET", "/", "UserViewSet.List"),
                             Route("POST", "/", "UserViewSet.Create") }
        a1 == RegisterAction(crud, "POST", "/:id/activate", "UserViewSet.Activate")
        a2 == RegisterAction(a1, "POST", "/:id/deactivate", "UserViewSet.Deactivate")
        a3 == RegisterAction(a2, "POST", "/:id/reset_password", "UserViewSet.ResetPassword")
    IN  RegisterAction(a3, "GET", "/stats", "UserViewSet.GetStats")

Routed(method, path, handler) == Route(method, path, handler) \in routes

-----------------------------------------------------------------------------
(* Handlers: what a request makes of the table, and the envelopes it writes.
   fault numbers the storage call of the handler that reports a fault
   (0: none). *)

Outcome(written, table, id) == [resp |-> written, table |-> table, nextId |-> id]

Entity(row) == [kind |-> "entity", row |-> row]
EntityList(list) == [kind |-> "list", rows |-> list]
Message(text) == [kind |-> "message", text |-> text]

\* a variant in which an error of the count is lost before the find
ListTail_countDropped(table, id, params, query, fault) ==
    LET total == DBCount(table, query, fault = 1).total
        found == DBFind(table, ApplyPagination(query, params), fault = 2)
    IN  IF found.err # "nil"
        THEN Outcome(<<InternalServerError("query failed")>>, table, id)
        ELSE Outcome(<<SuccessWithPagination(EntityList(found.rows),
                                              BuildPagination(params, total))>>,
                     table, id)

\* the tail both List handlers share, from the filtered query on. Count and
\* Find are called on the same *gorm.DB value (query): the result of Count is
\* dropped, but an error of it stays on that value, and Find, called on it,
\* does not run and reports that error
ListTail(table, id, params, query, fault) ==
    LET counted == DBCount(table, query, fault = 1)
        total == counted.total
        found == IF counted.err # "nil"
                 THEN [err |-> counted.err, rows |-> <<>>]
                 ELSE DBFind(table, ApplyPagination(query, params), fault = 2)
    IN  IF found.err # "nil"
        THEN Outcome(<<InternalServerError("query failed")>>, table, id)
        ELSE Outcome(<<SuccessWithPagination(EntityList(found.rows),
                                              BuildPagination(params, total))>>,
                     table, id)

GenericViewSet_List(table, id, q, fault) ==
    LET paginationParams == GetPaginationParams(q)
        filterParams == GetFilterParams(q, {})
        query == ApplyFilters(BlankQuery, filterParams)
    IN  ListTail(table, id, paginationParams, query, fault)

UserViewSet_List(table, id, q, fault) ==
    LET paginationParams == GetPaginationParams(q)
        filterParams == GetFilterParams(q, {"keyword"})
        keyword == Query(q, "keyword")
        base == IF keyword # <<>> THEN [BlankQuery EXCEPT !.keyword = <<keyword>>]
                ELSE BlankQuery
        query == ApplyFilters(base, filterParams)
    IN  ListTail(table, id, paginationParams, query, fault)

GenericViewSet_Retrieve(table, id, param, fault, odd) ==
    IF param = <<>> THEN Outcome(<<BadRequest("missing id")>>, table, id)
    ELSE LET got == FirstByString(table, param, fault = 1, odd)
         IN  IF got.err = "notfound"
             THEN Outcome(<<NotFound("no such record")>>, table, id)
             ELSE IF got.err # "nil"
             THEN Outcome(<<InternalServerError("query failed")>>, table, id)
             ELSE Outcome(<<Success(Entity(got.row))>>, table, id)

GenericViewSet_Create(table, id, body, fault) ==
    IF BindError(body) THEN Outcome(<<BadRequest("bad request data")>>, table, id)
    ELSE LET made == DBCreate(table, id, body.user, fault = 1)
         IN  IF made.err # "nil"
             THEN Outcome(<<InternalServerError("create failed")>>, made.table, id)
             ELSE Outcome(<<Success(Entity(made.row))>>, made.table, id + 1)

UserViewSet_Create(table, id, body, fault) ==
    IF BindError(body) THEN Outcome(<<BadRequest("bad request data")>>, table, id)
    ELSE LET user == body.user
             count == DBCount(table,
                              [BlankQuery EXCEPT !.wheres = {<<"email", user.email>>}],
                              fault = 1).total
             withStatus == IF user.status = <<>>
                           THEN [user EXCEPT !.status = S_inactive] ELSE user
             made == DBCreate(table, id, withStatus, fault = 2)
         IN  IF count > 0
             THEN Outcome(<<BadRequest("email already registered")>>, table, id)
             ELSE IF made.err # "nil"
             THEN Outcome(<<InternalServerError("create failed")>>, made.table, id)
             ELSE Outcome(<<Success(Entity(made.row))>>, made.table, id + 1)

GenericViewSet_Update(table, id, param, body, fault, odd) ==
    IF param = <<>> THEN Outcome(<<BadRequest("missing id")>>, table, id)
    ELSE LET existing == FirstByString(table, param, fault = 1, odd)
             updated == DBUpdates(table, existing.row, body.user, fault = 2)
             result == FirstByString(updated.table, param, fault = 3, odd)
         IN  IF existing.err = "notfound"
             THEN Outcome(<<NotFound("no such record")>>, table, id)
             ELSE IF existing.err # "nil"
             THEN Outcome(<<InternalServerError("query failed")>>, table, id)
             ELSE IF BindError(body)
             THEN Outcome(<<BadRequest("bad request data")>>, table, id)
             ELSE IF updated.err # "nil"
             THEN Outcome(<<InternalServerError("update failed")>>, updated.table, id)
             ELSE Outcome(<<Success(Entity(result.row))>>, updated.table, id)

GenericViewSet_Delete(table, id, param, fault, odd) ==
    IF param = <<>> THEN Outcome(<<BadRequest("missing id")>>, table, id)
    ELSE LET obj == FirstByString(table, param, fault = 1, odd)
             gone == DBDelete(table, obj.row, fault = 2)
         IN  IF obj.err = "notfound"
             THEN Outcome(<<NotFound("no such record")>>, table, id)
             ELSE IF obj.err # "nil"
             THEN Outcome(<<InternalServerError("query failed")>>, table, id)
             ELSE IF gone.err # "nil"
             THEN Outcome(<<InternalServerError("delete failed")>>, gone.table, id)
             ELSE Outcome(<<Success(Message("deleted"))>>, gone.table, id)

-----------------------------------------------------------------------------
(* Requests the pure helpers are exercised with *)

S_abc == <<97, 98, 99>>

S_neg1 == <<45, 49>>
S_plus2 == <<43, 50>>

\* values of page, page_size, limit and offset: empty, non-numeric, signed,
\* zero, small, around the clamp, and around the largest int
PageValues ==
    { <<>>, S_abc, S_neg1, Itoa(0), Itoa(1), Itoa(2), Itoa(3),
      Itoa(MaxInt), Itoa(MaxInt + 1) }
PageSizeValues ==
    { <<>>, S_abc, S_neg1, Itoa(0), Itoa(1), S_plus2, Itoa(DefaultPageSize),
      Itoa(MaxPageSize), Itoa(MaxPageSize + 1), Itoa(MaxInt) }
LimitValues ==
    { S_abc, Itoa(0), Itoa(1), Itoa(3), Itoa(MaxLimit), Itoa(MaxLimit + 1),
      Itoa(MaxInt + 1) }
OffsetValues ==
    { S_abc, S_neg1, Itoa(0), Itoa(1), Itoa(7), Itoa(MaxInt) }

Opt(values) == {<<>>} \cup {<<v>> : v \in values}

\* a parameter is absent, or present with one value
PagQueries ==
    { QueryOf([page |-> a, page_size |-> b, limit |-> c, offset |-> d]) :
        a \in Opt(PageValues), b \in Opt(PageSizeValues),
        c \in Opt(LimitValues), d \in Opt(OffsetValues) }

PagIdle == pagReq = [q |-> <<>>] /\ pagOut = [done |-> FALSE]
FltIdle == fltReq = [q |-> <<>>, ex |-> {}] /\ fltOut = [done |-> FALSE]
SanIdle == sanIn = [field |-> <<>>, dir |-> <<>>] /\ sanOut = [done |-> FALSE]
SrvIdle ==
    /\ mounted = None /\ routes = {} /\ rows = <<>> /\ nextId = 1
    /\ req = [op |-> None] /\ before = <<>> /\ resp = <<>> /\ calls = <<>>

PagInit ==
    /\ pagReq \in {[q |-> q] : q \in PagQueries}
    /\ pagOut = [done |-> FALSE]
    /\ FltIdle /\ SanIdle /\ SrvIdle

\* a List handler's pagination steps: extract, then put OFFSET/LIMIT on the query
PagApply ==
    /\ ~pagOut.done
    /\ LET params == GetPaginationParams(pagReq.q)
       IN  pagOut' = [done |-> TRUE, params |-> params,
                      query |-> ApplyPagination(BlankQuery, params)]
    /\ UNCHANGED <<pagReq, fltVars, sanVars, srvVars>>

PagNext == PagApply

SpecPage == PagInit /\ [][PagNext]_vars

-----------------------------------------------------------------------------
(* Requests GetFilterParams and sanitizeOrderBy are exercised with *)

\* all strings over an alphabet, up to a length
Strings(alphabet, n) == UNION {[1..k -> alphabet] : k \in 0..n}

\* a, Z, 0, _ and . : one character of each class the sanitizer keeps
FieldAlphabet == {97, 90, 48, 95, 46}

FieldNames == Strings(FieldAlphabet, MaxFieldLen) \ {<<>>}

S_a == <<97>>
S_bogus == <<98, 111, 103, 117, 115>>
S_injection ==
    <<97, 103, 101, 59, 32, 68, 82, 79, 80, 32, 84, 65, 66, 76, 69, 32, 120>>
S_ageDROPTABLEx == <<97, 103, 101, 68, 82, 79, 80, 84, 65, 66, 76, 69, 120>>

\* order_by values that are not "<field>[ asc|desc]": empty, blank, doubled
\* space, tab-separated, mixed case, unknown direction, a third token,
\* characters the sanitizer strips, a direction spelled with the long s
\* (U+017F), a direction cut short
OrderByOdd ==
    { <<>>, S_SP, S_a \o S_SP \o S_SP \o S_desc, S_a \o <<9>> \o S_desc,
      S_a \o S_SP \o <<68, 101, 115, 99>>, S_a \o S_SP \o S_bogus,
      S_a \o S_SP \o S_desc \o S_SP \o S_bogus, S_SP \o S_a,
      <<37>> \o S_SP \o S_desc, S_injection,
      S_a \o S_SP \o <<100, 101, 383, 99>>, S_a \o S_SP \o <<97, 115>> }

OrderByValues ==
    UNION {{f, f \o S_SP \o S_asc, f \o S_SP \o S_desc, f \o S_SP \o S_DESC} :
             f \in FieldNames} \cup OrderByOdd

OrderingOdd == { <<>>, S_MINUS, S_MINUS \o S_MINUS \o S_a, <<45, 59, 59>>, S_injection }

OrderingValues == UNION {{f, S_MINUS \o f} : f \in FieldNames} \cup OrderingOdd

\* requests about ordering: one of the two parameters with every value, or
\* both with the odd ones
OrderQueries ==
    { QueryOf([order_by |-> <<v>>, ordering |-> <<>>]) : v \in OrderByValues }
      \cup { QueryOf([order_by |-> <<>>, ordering |-> <<v>>]) : v \in OrderingValues }
      \cup { QueryOf([order_by |-> <<v>>, ordering |-> <<w>>]) :
               v \in OrderByOdd \cup {S_a \o S_SP \o S_desc}, w \in OrderingOdd \cup {S_a} }

\* requests about filters: reserved, excluded and plain parameters, present
\* or absent, the plain ones also with two values
FilterQueries ==
    { QueryOf([page |-> a, page_size |-> b, limit |-> c, offset |-> d,
               order_by |-> e, ordering |-> f, status |-> g, name |-> h,
               keyword |-> k]) :
        a \in Opt({Itoa(2)}), b \in Opt({Itoa(5)}), c \in Opt({Itoa(3)}),
        d \in Opt({Itoa(1)}), e \in Opt({S_a \o S_SP \o S_desc}),
        f \in Opt({S_MINUS \o S_a}),
        g \in {<<>>, <<S_active>>, <<S_active, S_inactive>>, <<S_inactive, S_active>>},
        h \in Opt({S_a}), k \in {<<>>, <<S_a>>, <<S_abc, S_a>>} }

ExcludeSets == { {}, {"keyword"}, {"status"}, {"keyword", "name"} }

FltInit ==
    /\ fltReq \in {[q |-> q, ex |-> {}] : q \in OrderQueries}
                    \cup {[q |-> q, ex |-> ex] : q \in FilterQueries, ex \in ExcludeSets}
    /\ fltOut = [done |-> FALSE]
    /\ PagIdle /\ SanIdle /\ SrvIdle

\* a List handler's filter steps: extract, then add the clauses to the query
FltApply ==
    /\ ~fltOut.done
    /\ LET params == GetFilterParams(fltReq.q, fltReq.ex)
       IN  fltOut' = [done |-> TRUE, params |-> params,
                      query |-> ApplyFilters(BlankQuery, params)]
    /\ UNCHANGED <<fltReq, pagVars, sanVars, srvVars>>

FltNext == FltApply

SpecFilter == FltInit /\ [][FltNext]_vars

\* one character around every edge of the ranges the sanitizer tests, and
\* some it must strip
SanAlphabet ==
    {47, 48, 57, 58, 64, 65, 90, 91, 95, 96, 97, 122, 123, 46, 59, 32, 45, 233}

SanInit ==
    /\ sanIn \in {[field |-> s, dir |-> d] :
                    s \in Strings(SanAlphabet, MaxLen) \cup {S_injection},
                    d \in {<<>>, S_ASC, S_DESC}}
    /\ sanOut = [done |-> FALSE]
    /\ PagIdle /\ FltIdle /\ SrvIdle

\* sanitizeOrderBy on the raw field, and ApplyFilters on an intent that
\* carries it
SanApply ==
    /\ ~sanOut.done
    /\ sanOut' = [done |-> TRUE,
                  clean |-> sanitizeOrderBy(sanIn.field),
                  query |-> ApplyFilters(BlankQuery,
                               [Filters |-> [k \in {} |-> <<>>],
                                OrderBy |-> sanIn.field, OrderDir |-> sanIn.dir])]
    /\ UNCHANGED <<sanIn, pagVars, fltVars, srvVars>>

SanNext == SanApply

SpecSanitize == SanInit /\ [][SanNext]_vars

\* a variant that looks an unparsable id up as key 0
GetObjectOr404_lenient(table, param, fault) ==
    LET got == FirstByKey(table, Atoi(param).val, fault)
    IN  IF got.err = "notfound"
        THEN [ok |-> FALSE, obj |-> BlankUser,
              written |-> <<NotFound("no such record")>>]
        ELSE IF got.err # "nil"
        THEN [ok |-> FALSE, obj |-> BlankUser,
              written |-> <<InternalServerError("query failed")>>]
        ELSE [ok |-> TRUE, obj |-> got.row, written |-> <<>>]

\* GetObjectOr404: the row and no envelope, or no row and the envelope written
GetObjectOr404(table, param, fault) ==
    IF Atoi(param).err
    THEN [ok |-> FALSE, obj |-> BlankUser, written |-> <<BadRequest("invalid id")>>]
    ELSE LET got == FirstByKey(table, Atoi(param).val, fault)
         IN  IF got.err = "notfound"
             THEN [ok |-> FALSE, obj |-> BlankUser,
                   written |-> <<NotFound("no such record")>>]
             ELSE IF got.err # "nil"
             THEN [ok |-> FALSE, obj |-> BlankUser,
                   written |-> <<InternalServerError("query failed")>>]
             ELSE [ok |-> TRUE, obj |-> got.row, written |-> <<>>]

\* a variant that goes on after a failed lookup instead of returning
SetStatus_noReturn(table, id, param, status, fault) ==
    LET found == GetObjectOr404(table, param, fault = 1)
        user == [found.obj EXCEPT !.status = status]
        saved == DBSave(table, user, fault = 2)
    IN  IF saved.err # "nil"
        THEN Outcome(found.written \o <<InternalServerError("save failed")>>,
                     saved.table, id)
        ELSE Outcome(found.written \o <<Success([kind |-> "action", row |-> user])>>,
                     saved.table, id)

\* Activate and Deactivate differ in the status they set and in their texts
SetStatus(table, id, param, status, fault) ==
    LET found == GetObjectOr404(table, param, fault = 1)
        user == [found.obj EXCEPT !.status = status]
        saved == DBSave(table, user, fault = 2)
    IN  IF ~found.ok THEN Outcome(found.written, table, id)
        ELSE IF saved.err # "nil"
        THEN Outcome(found.written \o <<InternalServerError("save failed")>>,
                     saved.table, id)
        ELSE Outcome(found.written \o <<Success([kind |-> "action", row |-> user])>>,
                     saved.table, id)

UserViewSet_Activate(table, id, param, fault) ==
    SetStatus(table, id, param, S_active, fault)

UserViewSet_Deactivate(table, id, param, fault) ==
    SetStatus(table, id, param, S_inactive, fault)

UserViewSet_ResetPassword(table, id, param, fault) ==
    LET found == GetObjectOr404(table, param, fault = 1)
    IN  IF ~found.ok THEN Outcome(found.written, table, id)
        ELSE Outcome(found.written
                       \o <<Success([kind |-> "reset", user_id |-> found.obj.id,
                                     email |-> found.obj.email])>>,
                     table, id)

\* the three counts of GetStats; their errors are not looked at
UserViewSet_GetStats(table, id, fault) ==
    LET byStatus(status) == [BlankQuery EXCEPT !.wheres = {<<"status", status>>}]
        total == DBCount(table, BlankQuery, fault = 1).total
        activeCount == DBCount(table, byStatus(S_active), fault = 2).total
        inactiveCount == DBCount(table, byStatus(S_inactive), fault = 3).total
    IN  Outcome(<<Success([kind |-> "stats", total |-> total, active |-> activeCount,
                           inactive |-> inactiveCount])>>,
                table, id)

-----------------------------------------------------------------------------
(* The service: a route table, the users table, and one request at a time *)

\* path parameters of the /:id routes
IdParams == {Itoa(1), Itoa(2), Itoa(3), S_abc}

\* what the engine makes of a path parameter that is no number, taken as the
\* text of a condition: no row (0), the row with that key, or an error (-1)
OddOutcomes(param) == IF Atoi(param).err THEN {0, 1, -1} ELSE {0}

NoBody == [malformed |-> FALSE, user |-> BlankUser]

UserOf(name, email, status, age, phone) ==
    [BlankUser EXCEPT !.name = name, !.email = email, !.status = status,
                      !.age = age, !.phone = phone]

\* request bodies: not JSON; every required field with the optional ones
\* absent, partly given or all given; only some fields; a malformed email
Bodies ==
    { [malformed |-> TRUE, user |-> BlankUser] }
      \cup { [malformed |-> FALSE, user |-> UserOf(n, e, t[1], t[2], t[3])] :
               n \in {S_A, S_B}, e \in {S_ax, S_bx},
               t \in { <<<<>>, 0, <<>>>>, <<<<>>, 27, <<>>>>, <<S_active, 27, S_1>> } }
      \cup { [malformed |-> FALSE, user |-> UserOf(<<>>, <<>>, <<>>, 27, <<>>)],
             [malformed |-> FALSE, user |-> UserOf(S_B, <<>>, <<>>, 27, <<>>)],
             [malformed |-> FALSE, user |-> UserOf(S_A, S_ab, <<>>, 0, <<>>)] }

S_age_desc == <<97, 103, 101>> \o S_SP \o S_desc
S_zz == <<122, 122>>

\* List requests: a pagination part, a filter part, an order part and a
\* keyword part, each absent or one of a few
ListQueries ==
    { QueryOf([page |-> pg[1], page_size |-> pg[2], limit |-> pg[3], offset |-> pg[4],
               status |-> fl[1], name |-> fl[2], zz |-> fl[3],
               order_by |-> od[1], ordering |-> od[2], keyword |-> kw]) :
        pg \in { << <<>>, <<>>, <<>>, <<>> >>,
                 << <<Itoa(2)>>, <<Itoa(1)>>, <<>>, <<>> >>,
                 << <<>>, <<>>, <<Itoa(1)>>, <<Itoa(1)>> >>,
                 << <<Itoa(MaxInt)>>, <<Itoa(2)>>, <<>>, <<>> >> },
        fl \in { << <<>>, <<>>, <<>> >>,
                 << <<S_active>>, <<>>, <<>> >>,
                 << <<S_inactive, S_active>>, <<S_A>>, <<>> >>,
                 << <<>>, <<>>, <<S_1>> >> },
        od \in { << <<>>, <<>> >>, << <<S_age_desc>>, <<>> >>,
                 << <<>>, <<<<45, 59, 59>>>> >> },
        kw \in { <<>>, <<S_A>> } }

Request(op, method, path, param, q, body, fault, odd) ==
    [op |-> op, method |-> method, path |-> path, id |-> param, q |-> q,
     body |-> body, fault |-> fault, odd |-> odd]

NoQuery == QueryOf([page |-> <<>>])

\* no request is being handled
Idle == req.op = None

\* the handler ran: the table is what it left, the response what it wrote
Handled(request, out) ==
    /\ req' = request
    /\ before' = rows
    /\ rows' = out.table
    /\ nextId' = out.nextId
    /\ resp' = out.resp
    /\ UNCHANGED <<mounted, routes, calls, pureVars>>

\* NewGenericViewSet(db, &User{}).RegisterRoutes(group), or SetupRouter with
\* the UserViewSet; the table is empty after migration
Init ==
    /\ mounted \in {"GenericViewSet", "UserViewSet"}
    /\ routes = IF mounted = "GenericViewSet" THEN GenericViewSet_RegisterRoutes({})
                ELSE UserViewSet_RegisterRoutes({})
    /\ rows = <<>> /\ nextId = 1
    /\ req = [op |-> None] /\ before = <<>> /\ resp = <<>> /\ calls = <<>>
    /\ PagIdle /\ FltIdle /\ SanIdle

ServeList ==
    /\ Idle
    /\ Routed("GET", "/", "GenericViewSet.List")
    /\ \E q \in ListQueries, fault \in 0..2 :
          Handled(Request("GenericViewSet.List", "GET", "/", <<>>, q, NoBody, fault, 0),
                  GenericViewSet_List(rows, nextId, q, fault))

ServeUserList ==
    /\ Idle
    /\ Routed("GET", "/", "UserViewSet.List")
    /\ \E q \in ListQueries, fault \in 0..2 :
          Handled(Request("UserViewSet.List", "GET", "/", <<>>, q, NoBody, fault, 0),
                  UserViewSet_List(rows, nextId, q, fault))

ServeRetrieve ==
    /\ Idle
    /\ Routed("GET", "/:id", "GenericViewSet.Retrieve")
    /\ \E param \in IdParams, fault \in 0..1 : \E odd \in OddOutcomes(param) :
          Handled(Request("GenericViewSet.Retrieve", "GET", "/:id", param, NoQuery,
                          NoBody, fault, odd),
                  GenericViewSet_Retrieve(rows, nextId, param, fault, odd))

ServeCreate ==
    /\ Idle
    /\ Routed("POST", "/", "GenericViewSet.Create")
    /\ Len(rows) < MaxRows
    /\ \E body \in Bodies, fault \in 0..1 :
          Handled(Request("GenericViewSet.Create", "POST", "/", <<>>, NoQuery, body,
                          fault, 0),
                  GenericViewSet_Create(rows, nextId, body, fault))

ServeUserCreate ==
    /\ Idle
    /\ Routed("POST", "/", "UserViewSet.Create")
    /\ Len(rows) < MaxRows
    /\ \E body \in Bodies, fault \in 0..2 :
          Handled(Request("UserViewSet.Create", "POST", "/", <<>>, NoQuery, body,
                          fault, 0),
                  UserViewSet_Create(rows, nextId, body, fault))

ServeUpdate ==
    /\ Idle
    /\ Routed("PUT", "/:id", "GenericViewSet.Update")
    /\ \E param \in IdParams, body \in Bodies, fault \in 0..3 :
       \E odd \in OddOutcomes(param) :
          Handled(Request("GenericViewSet.Update", "PUT", "/:id", param, NoQuery, body,
                          fault, odd),
                  GenericViewSet_Update(rows, nextId, param, body, fault, odd))

ServeDelete ==
    /\ Idle
    /\ Routed("DELETE", "/:id", "GenericViewSet.Delete")
    /\ \E param \in IdParams, fault \in 0..2 : \E odd \in OddOutcomes(param) :
          Handled(Request("GenericViewSet.Delete", "DELETE", "/:id", param, NoQuery,
                          NoBody, fault, odd),
                  GenericViewSet_Delete(rows, nextId, param, fault, odd))

ServeActivate ==
    /\ Idle
    /\ Routed("POST", "/:id/activate", "UserViewSet.Activate")
    /\ \E param \in IdParams, fault \in 0..2 :
          Handled(Request("UserViewSet.Activate", "POST", "/:id/activate", param,
                          NoQuery, NoBody, fault, 0),
                  UserViewSet_Activate(rows, nextId, param, fault))

ServeDeactivate ==
    /\ Idle
    /\ Routed("POST", "/:id/deactivate", "UserViewSet.Deactivate")
    /\ \E param \in IdParams, fault \in 0..2 :
          Handled(Request("UserViewSet.Deactivate", "POST", "/:id/deactivate", param,
                          NoQuery, NoBody, fault, 0),
                  UserViewSet_Deactivate(rows, nextId, param, fault))

ServeResetPassword ==
    /\ Idle
    /\ Routed("POST", "/:id/reset_password", "UserViewSet.ResetPassword")
    /\ \E param \in IdParams, fault \in 0..1 :
          Handled(Request("UserViewSet.ResetPassword", "POST", "/:id/reset_password",
                          param, NoQuery, NoBody, fault, 0),
                  UserViewSet_ResetPassword(rows, nextId, param, fault))

ServeGetStats ==
    /\ Idle
    /\ Routed("GET", "/stats", "UserViewSet.GetStats")
    /\ \E fault \in 0..3 :
          Handled(Request("UserViewSet.GetStats", "GET", "/stats", <<>>, NoQuery,
                          NoBody, fault, 0),
                  UserViewSet_GetStats(rows, nextId, fault))

\* a request no route matches: the router answers 404 itself and no handler
\* runs, so no envelope is written
ServeNoRoute ==
    /\ Idle
    /\ \E method \in {"GET", "PUT", "DELETE"}, param \in IdParams :
        /\ \A r \in routes : ~(r.method = method /\ r.path = "/:id")
        /\ Handled(Request("NoRoute", method, "/:id", param, NoQuery, NoBody, 0, 0),
                   Outcome(<<>>, rows, nextId))

\* the handler has returned and the response is sent: the request's context
\* is discarded
Complete ==
    /\ ~Idle
    /\ req' = [op |-> None] /\ before' = <<>> /\ resp' = <<>>
    /\ UNCHANGED <<mounted, routes, rows, nextId, calls, pureVars>>

Next ==
    \/ Complete
    \/ ServeList
    \/ ServeUserList
    \/ ServeRetrieve
    \/ ServeCreate
    \/ ServeUserCreate
    \/ ServeUpdate
    \/ ServeDelete
    \/ ServeActivate
    \/ ServeDeactivate
    \/ ServeResetPassword
    \/ ServeGetStats
    \/ ServeNoRoute

Spec == Init /\ [][Next]_vars

-----------------------------------------------------------------------------
(* Concurrent requests: gin runs each handler in its own goroutine; every
   storage call is one statement, atomic in the engine, and the handlers
   interleave between their calls *)

Procs == 1..NProcs

\* bodies of concurrent Create requests: the same email twice, another email,
\* and one that does not bind
RaceBodies ==
    { [malformed |-> FALSE, user |-> UserOf(S_A, S_ax, <<>>, 0, <<>>)],
      [malformed |-> FALSE, user |-> UserOf(S_B, S_ax, S_active, 27, <<>>)],
      [malformed |-> FALSE, user |-> UserOf(S_B, S_bx, <<>>, 0, <<>>)],
      [malformed |-> FALSE, user |-> UserOf(S_A, S_ab, <<>>, 0, <<>>)] }

\* the table the concurrent requests meet: empty, or one row, live or deleted
RaceTables ==
    { <<>> }
      \cup { << [UserOf(S_A, S_ax, S_inactive, 0, <<>>)
                   EXCEPT !.id = 1, !.deleted = d] >> : d \in BOOLEAN }

\* a UserViewSet.Create about to bind its body
CreateCall(body, fault) ==
    [op |-> "UserViewSet.Create", pc |-> "bind", body |-> body, fault |-> fault,
     resp |-> <<>>]

RaceInit ==
    /\ mounted = "UserViewSet" /\ routes = UserViewSet_RegisterRoutes({})
    /\ rows \in RaceTables /\ nextId = Len(rows) + 1
    /\ req = [op |-> None] /\ before = <<>> /\ resp = <<>>
    /\ calls \in [Procs -> {CreateCall(body, fault) : body \in RaceBodies,
                                                       fault \in 0..2}]
    /\ PagIdle /\ FltIdle /\ SanIdle

Returned(p, envelope) == [calls EXCEPT ![p].pc = "done", ![p].resp = @ \o <<envelope>>]

\* c.ShouldBindJSON(&user)
CreateBind(p) ==
    /\ calls[p].op = "UserViewSet.Create" /\ calls[p].pc = "bind"
    /\ calls' = IF BindError(calls[p].body)
                THEN Returned(p, BadRequest("bad request data"))
                ELSE [calls EXCEPT ![p].pc = "count"]
    /\ UNCHANGED <<mounted, routes, rows, nextId, req, before, resp, pureVars>>

\* the pre-check: Count of the rows with the email, its error not looked at
CreateCount(p) ==
    /\ calls[p].op = "UserViewSet.Create" /\ calls[p].pc = "count"
    /\ LET count == DBCount(rows,
                            [BlankQuery EXCEPT
                               !.wheres = {<<"email", calls[p].body.user.email>>}],
                            calls[p].fault = 1).total
       IN  calls' = IF count > 0
                    THEN Returned(p, BadRequest("email already registered"))
                    ELSE [calls EXCEPT ![p].pc = "insert"]
    /\ UNCHANGED <<mounted, routes, rows, nextId, req, before, resp, pureVars>>

\* the default status and v.DB.Create(&user)
CreateInsert(p) ==
    /\ calls[p].op = "UserViewSet.Create" /\ calls[p].pc = "insert"
    /\ LET user == calls[p].body.user
           withStatus == IF user.status = <<>>
                         THEN [user EXCEPT !.status = S_inactive] ELSE user
           made == DBCreate(rows, nextId, withStatus, calls[p].fault = 2)
       IN  /\ rows' = made.table
           /\ nextId' = IF made.err = "nil" THEN nextId + 1 ELSE nextId
           /\ calls' = IF made.err # "nil"
                       THEN Returned(p, InternalServerError("create failed"))
                       ELSE Returned(p, Success(Entity(made.row)))
    /\ UNCHANGED <<mounted, routes, req, before, resp, pureVars>>

RaceNext ==
    \E p \in Procs :
        \/ CreateBind(p)
        \/ CreateCount(p)
        \/ CreateInsert(p)

SpecRace == RaceInit /\ [][RaceNext]_vars

-----------------------------------------------------------------------------
(* The handlers of one UserViewSet value, its own and the ones it has from
   the embedded GenericViewSet, running concurrently on the users table. A
   call keeps its locals between its storage calls: obj is the entity it
   read, total and err are the count of a List and the error left on its
   query value *)

ListOps == {"GenericViewSet.List", "UserViewSet.List"}
StatusOps == {"UserViewSet.Activate", "UserViewSet.Deactivate"}
LookupOps == StatusOps \cup {"UserViewSet.ResetPassword"}

\* where a handler starts
FirstPc(op) ==
    CASE op = "UserViewSet.Create" -> "bind"
      [] op \in ListOps -> "count"
      [] op \in {"GenericViewSet.Update", "GenericViewSet.Delete"} -> "first"
      [] OTHER -> "lookup"

Call(op, param, q, body, fault) ==
    [op |-> op, pc |-> FirstPc(op), id |-> param, q |-> q, body |-> body,
     fault |-> fault, resp |-> <<>>, obj |-> BlankUser, total |-> 0, err |-> "nil"]

\* the tables the calls meet: empty, one user, two users
HandlerTables ==
    LET r1 == [UserOf(S_A, S_ax, S_inactive, 0, <<>>) EXCEPT !.id = 1]
        r2 == [UserOf(S_B, S_bx, S_active, 27, S_1) EXCEPT !.id = 2]
    IN  { <<>>, <<r1>>, <<r1, r2>> }

\* bodies of the Create and Update calls: the email of user 1 under another
\* name, and one that does not bind
HandlerBodies ==
    { [malformed |-> FALSE, user |-> UserOf(S_B, S_ax, <<>>, 0, <<>>)],
      [malformed |-> FALSE, user |-> UserOf(S_A, S_ab, <<>>, 0, <<>>)] }

\* List requests: everything on one page, and the second page of size one
HandlerQueries ==
    { NoQuery, QueryOf([page |-> <<Itoa(2)>>, page_size |-> <<Itoa(1)>>]) }

\* the calls, all of them about user 1, with every storage call faulting or not
HandlerCalls ==
    { Call("UserViewSet.Create", <<>>, NoQuery, body, fault) :
        body \in HandlerBodies, fault \in 0..2 }
      \cup { Call("GenericViewSet.Update", Itoa(1), NoQuery, body, fault) :
               body \in HandlerBodies, fault \in 0..3 }
      \cup { Call("GenericViewSet.Delete", Itoa(1), NoQuery, NoBody, fault) :
               fault \in 0..2 }
      \cup { Call(op, Itoa(1), NoQuery, NoBody, fault) :
               op \in StatusOps, fault \in 0..2 }
      \cup { Call("UserViewSet.ResetPassword", Itoa(1), NoQuery, NoBody, fault) :
               fault \in 0..1 }
      \cup { Call(op, <<>>, q, NoBody, fault) :
               op \in ListOps, q \in HandlerQueries, fault \in 0..2 }

HandlersInit ==
    /\ mounted = "UserViewSet" /\ routes = UserViewSet_RegisterRoutes({})
    /\ rows \in HandlerTables /\ nextId = Len(rows) + 1
    /\ req = [op |-> None] /\ before = <<>> /\ resp = <<>>
    /\ calls \in [Procs -> HandlerCalls]
    /\ PagIdle /\ FltIdle /\ SanIdle

\* the query of a List handler after ApplyFilters
FilteredQuery(op, q) ==
    LET keyword == Query(q, "keyword")
    IN  IF op = "UserViewSet.List"
        THEN ApplyFilters(IF keyword # <<>>
                          THEN [BlankQuery EXCEPT !.keyword = <<keyword>>]
                          ELSE BlankQuery,
                          GetFilterParams(q, {"keyword"}))
        ELSE ApplyFilters(BlankQuery, GetFilterParams(q, {}))

\* query.Count(&total): the result is dropped, an error stays on query
ListCount(p) ==
    /\ calls[p].op \in ListOps /\ calls[p].pc = "count"
    /\ LET counted == DBCount(rows, FilteredQuery(calls[p].op, calls[p].q),
                              calls[p].fault = 1)
       IN  calls' = [calls EXCEPT ![p].pc = "find", ![p].total = counted.total,
                                  ![p].err = counted.err]
    /\ UNCHANGED <<mounted, routes, rows, nextId, req, before, resp, pureVars>>

\* ApplyPagination, query.Find(results) and the response
ListFind(p) ==
    /\ calls[p].op \in ListOps /\ calls[p].pc = "find"
    /\ LET params == GetPaginationParams(calls[p].q)
           query == FilteredQuery(calls[p].op, calls[p].q)
           found == IF calls[p].err # "nil"
                    THEN [err |-> calls[p].err, rows |-> <<>>]
                    ELSE DBFind(rows, ApplyPagination(query, params),
                                calls[p].fault = 2)
       IN  calls' = IF found.err # "nil"
                    THEN Returned(p, InternalServerError("query failed"))
                    ELSE Returned(p, SuccessWithPagination(
                                        EntityList(found.rows),
                                        BuildPagination(params, calls[p].total)))
    /\ UNCHANGED <<mounted, routes, rows, nextId, req, before, resp, pureVars>>

\* Update up to its write: the id, v.DB.First(existing, id), ShouldBindJSON
UpdateFirst(p) ==
    /\ calls[p].op = "GenericViewSet.Update" /\ calls[p].pc = "first"
    /\ LET existing == FirstByString(rows, calls[p].id, calls[p].fault = 1, 0)
       IN  calls' = IF calls[p].id = <<>>
                    THEN Returned(p, BadRequest("missing id"))
                    ELSE IF existing.err = "notfound"
                    THEN Returned(p, NotFound("no such record"))
                    ELSE IF existing.err # "nil"
                    THEN Returned(p, InternalServerError("query failed"))
                    ELSE IF BindError(calls[p].body)
                    THEN Returned(p, BadRequest("bad request data"))
                    ELSE [calls EXCEPT ![p].pc = "updates", ![p].obj = existing.row]
    /\ UNCHANGED <<mounted, routes, rows, nextId, req, before, resp, pureVars>>

\* v.DB.Model(existing).Updates(updates)
UpdateWrite(p) ==
    /\ calls[p].op = "GenericViewSet.Update" /\ calls[p].pc = "updates"
    /\ LET updated == DBUpdates(rows, calls[p].obj, calls[p].body.user,
                                calls[p].fault = 2)
       IN  /\ rows' = updated.table
           /\ calls' = IF updated.err # "nil"
                       THEN Returned(p, InternalServerError("update failed"))
                       ELSE [calls EXCEPT ![p].pc = "refetch"]
    /\ UNCHANGED <<mounted, routes, nextId, req, before, resp, pureVars>>

\* v.DB.First(result, id), its error not looked at, and the response
UpdateRefetch(p) ==
    /\ calls[p].op = "GenericViewSet.Update" /\ calls[p].pc = "refetch"
    /\ LET result == FirstByString(rows, calls[p].id, calls[p].fault = 3, 0)
       IN  calls' = Returned(p, Success(Entity(result.row)))
    /\ UNCHANGED <<mounted, routes, rows, nextId, req, before, resp, pureVars>>

\* Delete up to its write: the id and v.DB.First(obj, id)
DeleteFirst(p) ==
    /\ calls[p].op = "GenericViewSet.Delete" /\ calls[p].pc = "first"
    /\ LET obj == FirstByString(rows, calls[p].id, calls[p].fault = 1, 0)
       IN  calls' = IF calls[p].id = <<>>
                    THEN Returned(p, BadRequest("missing id"))
                    ELSE IF obj.err = "notfound"
                    THEN Returned(p, NotFound("no such record"))
                    ELSE IF obj.err # "nil"
                    THEN Returned(p, InternalServerError("query failed"))
                    ELSE [calls EXCEPT ![p].pc = "delete", ![p].obj = obj.row]
    /\ UNCHANGED <<mounted, routes, rows, nextId, req, before, resp, pureVars>>

\* v.DB.Delete(obj) and the response
DeleteWrite(p) ==
    /\ calls[p].op = "GenericViewSet.Delete" /\ calls[p].pc = "delete"
    /\ LET gone == DBDelete(rows, calls[p].obj, calls[p].fault = 2)
       IN  /\ rows' = gone.table
           /\ calls' = IF gone.err # "nil"
                       THEN Returned(p, InternalServerError("delete failed"))
                       ELSE Returned(p, Success(Message("deleted")))
    /\ UNCHANGED <<mounted, routes, nextId, req, before, resp, pureVars>>

\* v.GetObjectOr404(c, id) of Activate, Deactivate and ResetPassword;
\* ResetPassword answers from what it read
ActionLookup(p) ==
    /\ calls[p].op \in LookupOps /\ calls[p].pc = "lookup"
    /\ LET found == GetObjectOr404(rows, calls[p].id, calls[p].fault = 1)
       IN  calls' = IF ~found.ok THEN Returned(p, found.written[1])
                    ELSE IF calls[p].op = "UserViewSet.ResetPassword"
                    THEN Returned(p, Success([kind |-> "reset",
                                              user_id |-> found.obj.id,
                                              email |-> found.obj.email]))
                    ELSE [calls EXCEPT ![p].pc = "save", ![p].obj = found.obj]
    /\ UNCHANGED <<mounted, routes, rows, nextId, req, before, resp, pureVars>>

\* user.Status = ..., v.DB.Save(user) and the response
StatusSave(p) ==
    /\ calls[p].op \in StatusOps /\ calls[p].pc = "save"
    /\ LET status == IF calls[p].op = "UserViewSet.Activate"
                     THEN S_active ELSE S_inactive
           user == [calls[p].obj EXCEPT !.status = status]
           saved == DBSave(rows, user, calls[p].fault = 2)
       IN  /\ rows' = saved.table
           /\ calls' = IF saved.err # "nil"
                       THEN Returned(p, InternalServerError("save failed"))
                       ELSE Returned(p, Success([kind |-> "action", row |-> user]))
    /\ UNCHANGED <<mounted, routes, nextId, req, before, resp, pureVars>>

\* one storage call of one handler
HandlerStep(p) ==
    \/ CreateBind(p)
    \/ CreateCount(p)
    \/ CreateInsert(p)
    \/ ListCount(p)
    \/ ListFind(p)
    \/ UpdateFirst(p)
    \/ UpdateWrite(p)
    \/ UpdateRefetch(p)
    \/ DeleteFirst(p)
    \/ DeleteWrite(p)
    \/ ActionLookup(p)
    \/ StatusSave(p)

HandlersNext == \E p \in Procs : HandlerStep(p)

SpecHandlers == HandlersInit /\ [][HandlersNext]_vars

\* a call that has made a storage call and has not returned
InFlight(p) == calls[p].pc \notin {FirstPc(calls[p].op), "done"}

\* requests served one after the other: a handler runs only while no other
\* is in flight
Alone(p) == \A o \in Procs \ {p} : ~InFlight(o)

SerialNext ==
    \E p \in Procs :
        \/ Alone(p) /\ CreateBind(p)
        \/ Alone(p) /\ CreateCount(p)
        \/ Alone(p) /\ CreateInsert(p)
        \/ Alone(p) /\ ListCount(p)
        \/ Alone(p) /\ ListFind(p)
        \/ Alone(p) /\ UpdateFirst(p)
        \/ Alone(p) /\ UpdateWrite(p)
        \/ Alone(p) /\ UpdateRefetch(p)
        \/ Alone(p) /\ DeleteFirst(p)
        \/ Alone(p) /\ DeleteWrite(p)
        \/ Alone(p) /\ ActionLookup(p)
        \/ Alone(p) /\ StatusSave(p)

SpecSerial == HandlersInit /\ [][SerialNext]_vars

-----------------------------------------------------------------------------
(* Claims about pagination *)

Supplied(key) == key \in DOMAIN pagReq.q
Given(key) == Atoi(Query(pagReq.q, key)).val
ValidPositive(key) == ParsedPositive(Query(pagReq.q, key))
ValidNonNegative(key) == ParsedNonNegative(Query(pagReq.q, key))
Min(a, b) == IF a < b THEN a ELSE b
WithoutKey(q, key) == [k \in DOMAIN q \ {key} |-> q[k]]

C3_Ranges ==
    pagOut.done =>
        /\ pagOut.params.Page >= 1
        /\ pagOut.params.PageSize >= 1 /\ pagOut.params.PageSize <= 100
        /\ pagOut.params.Limit >= 1 /\ pagOut.params.Limit <= 100
        /\ pagOut.params.Limit = pagOut.params.PageSize

C3_Clamp ==
    pagOut.done =>
        /\ ValidPositive("limit") => pagOut.params.Limit = Min(Given("limit"), 100)
        /\ (ValidPositive("page_size") /\ ~ValidPositive("limit"))
              => pagOut.params.PageSize = Min(Given("page_size"), 100)

C3_Ignored ==
    pagOut.done =>
        /\ \A key \in {"page", "page_size", "limit"} :
              ~ValidPositive(key)
                 => pagOut.params = GetPaginationParams(WithoutKey(pagReq.q, key))
        /\ (~ValidPositive("page") /\ ~ValidPositive("page_size")
              /\ ~ValidPositive("limit"))
              => pagOut.params.Page = 1 /\ pagOut.params.PageSize = 10

\* C3: every extracted pagination intent has page >= 1, 1 <= pageSize <= 100,
\* 1 <= limit <= 100 and limit = pageSize; a page_size or limit above 100 is
\* clamped to 100; a value that is <= 0 or non-numeric is ignored, so that the
\* defaults page = 1 and page_size = 10 are retained.
C3_PaginationBounds == C3_Ranges /\ C3_Clamp /\ C3_Ignored

\* C4: with a valid page >= 1, a valid page_size in 1..100 and no limit or
\* offset parameter, offset = (page-1)*pageSize and limit = pageSize, and these
\* are the OFFSET and LIMIT put on the query.
C4_OffsetFromPage ==
    (/\ pagOut.done
     /\ ValidPositive("page")
     /\ ValidPositive("page_size") /\ Given("page_size") <= 100
     /\ ~Supplied("limit") /\ ~Supplied("offset"))
    => /\ pagOut.params.Offset = (Given("page") - 1) * Given("page_size")
       /\ pagOut.params.Limit = Given("page_size")
       /\ pagOut.query.offset = <<pagOut.params.Offset>>
       /\ pagOut.query.limit = <<pagOut.params.Limit>>

\* C5: when a valid limit (> 0) or a valid offset (>= 0) is supplied, the
\* extracted limit is the supplied limit clamped to 100, the extracted offset
\* is the supplied offset (also without limit), pageSize = limit and
\* page = offset div pageSize + 1, whatever page and page_size are supplied.
C5_LimitOffsetAuthoritative ==
    (pagOut.done /\ (ValidPositive("limit") \/ ValidNonNegative("offset")))
    => /\ ValidPositive("limit") => pagOut.params.Limit = Min(Given("limit"), 100)
       /\ ValidNonNegative("offset") => pagOut.params.Offset = Given("offset")
       /\ pagOut.params.PageSize = pagOut.params.Limit
       /\ pagOut.params.Page = (pagOut.params.Offset \div pagOut.params.PageSize) + 1

\* C25: the offset extracted by GetPaginationParams is never negative: for
\* every page the integer parser accepts and every page_size in 1..100 the
\* offset is the mathematical product (page-1)*pageSize, without wrap-around,
\* so the OFFSET passed to the storage engine is >= 0.
C25_OffsetNeverNegative ==
    pagOut.done =>
        /\ pagOut.params.Offset >= 0
        /\ pagOut.query.offset = <<pagOut.params.Offset>>
        /\ (ValidPositive("page") /\ ~ValidPositive("limit"))
              => pagOut.params.Offset
                    = (Given("page") - 1) * pagOut.params.PageSize

-----------------------------------------------------------------------------
(* Claims about filtering and ordering *)

OrderIntent == [field |-> fltOut.params.OrderBy, direction |-> fltOut.params.OrderDir]
AsksOrderBy(v) == Query(fltReq.q, "order_by") = v
AsksOrdering(v) == Query(fltReq.q, "order_by") = <<>> /\ Query(fltReq.q, "ordering") = v

\* C6: for every field name f over [A-Za-z0-9_.], order_by="f desc" and
\* ordering="-f" give the intent {f, DESC}; order_by="f", order_by="f asc" and
\* ordering="f" give {f, ASC}; the ORDER BY clause applied is the same.
C6_OrderEquivalence ==
    fltOut.done =>
        \A f \in FieldNames :
            /\ (AsksOrderBy(f \o S_SP \o S_desc) \/ AsksOrdering(S_MINUS \o f))
                  => /\ OrderIntent = [field |-> f, direction |-> S_DESC]
                     /\ fltOut.query.orders = <<f \o S_SP \o S_DESC>>
            /\ (AsksOrderBy(f) \/ AsksOrderBy(f \o S_SP \o S_asc) \/ AsksOrdering(f))
                  => /\ OrderIntent = [field |-> f, direction |-> S_ASC]
                     /\ fltOut.query.orders = <<f \o S_SP \o S_ASC>>

C6_Witness ==
    /\ fltOut.done
    /\ AsksOrderBy(<<97, 46>> \o S_SP \o S_desc)
    /\ OrderIntent = [field |-> <<97, 46>>, direction |-> S_DESC]

\* the character set [A-Za-z0-9_.]
OrderCharSet == (65..90) \cup (97..122) \cup (48..57) \cup {95, 46}
InOrderCharSet(r) == r \in OrderCharSet

\* C7: sanitizeOrderBy returns exactly the subsequence of the input's
\* characters in [A-Za-z0-9_.], in order ("age; DROP TABLE x" gives
\* "ageDROPTABLEx"); the field part of the ORDER BY clause handed to the
\* storage engine has no other character; sanitizing twice is sanitizing once.
C7_SanitizeSubsequence ==
    sanOut.done =>
        /\ sanOut.clean = SelectSeq(sanIn.field, InOrderCharSet)
        /\ sanIn.field = S_injection => sanOut.clean = S_ageDROPTABLEx
        /\ sanitizeOrderBy(sanOut.clean) = sanOut.clean
        /\ sanIn.field # <<>> =>
              /\ Len(sanOut.query.orders) = 1
              /\ LET clause == sanOut.query.orders[1]
                     suffix == IF sanIn.dir = <<>> THEN <<>> ELSE S_SP \o sanIn.dir
                     fieldPart == SubSeq(clause, 1, Len(clause) - Len(suffix))
                 IN  /\ clause = fieldPart \o suffix
                     /\ \A i \in 1..Len(fieldPart) : fieldPart[i] \in OrderCharSet

C7_Witness ==
    /\ sanOut.done
    /\ sanIn.field = S_injection
    /\ sanOut.clean = S_ageDROPTABLEx
    /\ sanOut.query.orders = <<S_ageDROPTABLEx>>

\* C8: the Filter Intent has exactly the query's keys that are neither
\* reserved (page, page_size, limit, offset, order_by, ordering) nor in the
\* caller's exclusion set, each mapped to the first value of the parameter.
C8_FilterKeys ==
    fltOut.done =>
        /\ DOMAIN fltOut.params.Filters =
              DOMAIN fltReq.q \ ({"page", "page_size", "limit", "offset",
                                  "order_by", "ordering"} \cup fltReq.ex)
        /\ \A k \in DOMAIN fltOut.params.Filters :
              fltOut.params.Filters[k] = Head(fltReq.q[k])

C8_Witness ==
    /\ fltOut.done
    /\ fltReq.ex = {"keyword"}
    /\ {"page", "ordering", "keyword", "status", "name"} \subseteq DOMAIN fltReq.q
    /\ fltReq.q["status"] = <<S_inactive, S_active>>
    /\ DOMAIN fltOut.params.Filters = {"status", "name"}
    /\ fltOut.params.Filters["status"] = S_inactive

\* C21: when the requested order field sanitizes to the empty string
\* (ordering="-;;", order_by="% desc") no ORDER BY clause is added to the
\* query; a clause is added only with a non-empty sanitized field name.
C21_EmptyFieldNoOrder ==
    fltOut.done =>
        /\ sanitizeOrderBy(fltOut.params.OrderBy) = <<>>
              => fltOut.query.orders = <<>>
        /\ fltOut.query.orders # <<>>
              => sanitizeOrderBy(fltOut.params.OrderBy) # <<>>

\* equality of two strings under Unicode simple case folding
FoldRune(r) == IF r >= 65 /\ r <= 90 THEN r + 32 ELSE IF r = 383 THEN 115 ELSE r
EqualFold(a, b) ==
    Len(a) = Len(b) /\ \A i \in 1..Len(a) : FoldRune(a[i]) = FoldRune(b[i])

\* C22: the Order Intent has a direction in {"", ASC, DESC} and names at most
\* one field; with a non-empty field the direction is ASC or DESC; a missing
\* direction and any direction token other than asc/desc (case-insensitive)
\* give ASC; tokens after the second one in order_by are ignored; with both
\* order_by and ordering supplied only order_by is used.
C22_OrderIntent ==
    fltOut.done =>
        LET orderBy == Query(fltReq.q, "order_by")
            ordering == Query(fltReq.q, "ordering")
            parts == Fields(orderBy)
            field == fltOut.params.OrderBy
            dir == fltOut.params.OrderDir
        IN  /\ dir \in {<<>>, S_ASC, S_DESC}
            /\ field # <<>> => dir \in {S_ASC, S_DESC}
            /\ Len(fltOut.query.orders) <= 1
            /\ \A i \in 1..Len(fltOut.query.orders) :
                  /\ Len(Fields(fltOut.query.orders[i])) <= 2
                  /\ \A j \in 1..Len(fltOut.query.orders[i]) :
                        fltOut.query.orders[i][j] # 44
            /\ (orderBy # <<>> /\ Len(parts) = 0) => field = <<>> /\ dir = <<>>
            /\ (orderBy # <<>> /\ Len(parts) = 1) => field = parts[1] /\ dir = S_ASC
            /\ (orderBy # <<>> /\ Len(parts) >= 2)
                  => /\ field = parts[1]
                     /\ dir = IF EqualFold(parts[2], S_desc) THEN S_DESC ELSE S_ASC
            /\ orderBy # <<>>
                  => fltOut.params = GetFilterParams(WithoutKey(fltReq.q, "ordering"),
                                                     fltReq.ex)
            /\ (orderBy = <<>> /\ ordering # <<>>)
                  => IF ordering[1] = 45
                     THEN field = Tail(ordering) /\ dir = S_DESC
                     ELSE field = ordering /\ dir = S_ASC
            /\ (orderBy = <<>> /\ ordering = <<>>) => field = <<>> /\ dir = <<>>

C22_Witness ==
    /\ fltOut.done
    /\ Query(fltReq.q, "order_by") = S_a \o S_SP \o S_desc \o S_SP \o S_bogus
    /\ Query(fltReq.q, "ordering") = S_a
    /\ fltOut.params.OrderBy = S_a
    /\ fltOut.params.OrderDir = S_DESC

-----------------------------------------------------------------------------
(* Claims about the service *)

HasRoute(method, path) == \E r \in routes : r.method = method /\ r.path = path

\* C1: after UserViewSet.RegisterRoutes the route table holds the five CRUD
\* routes and the four custom actions; GET / and POST / dispatch to the
\* overridden List and Create, and GET, PUT and DELETE /:id to the generic
\* Retrieve, Update and Delete.
C1_UserRoutes ==
    mounted = "UserViewSet" =>
        /\ HasRoute("GET", "/") /\ HasRoute("GET", "/:id") /\ HasRoute("POST", "/")
        /\ HasRoute("PUT", "/:id") /\ HasRoute("DELETE", "/:id")
        /\ HasRoute("POST", "/:id/activate") /\ HasRoute("POST", "/:id/deactivate")
        /\ HasRoute("POST", "/:id/reset_password") /\ HasRoute("GET", "/stats")
        /\ Routed("GET", "/", "UserViewSet.List")
        /\ Routed("POST", "/", "UserViewSet.Create")
        /\ Routed("GET", "/:id", "GenericViewSet.Retrieve")
        /\ Routed("PUT", "/:id", "GenericViewSet.Update")
        /\ Routed("DELETE", "/:id", "GenericViewSet.Delete")

Answered == Len(resp) = 1
Code == resp[1].code
KeyOf(request) == Atoi(request.id).val
OnLiveRow(request) == ~Atoi(request.id).err /\ KeyOf(request) \in LiveIds(before)
Fields5 == {"name", "email", "status", "age", "phone"}
IsZero(v, field) == IF field = "age" THEN v = 0 ELSE v = <<>>

\* C2: Update of an existing row with a body that carries only some of the
\* fields (for example only age) answers code 0; the fields given with a
\* non-zero value have the new value in the response and in the table, every
\* other field keeps its value, and no other row changes.
C2_PartialUpdate ==
    (/\ req.op = "GenericViewSet.Update"
     /\ OnLiveRow(req)
     /\ ~req.body.malformed
     /\ req.fault = 0
     /\ ~EmailTaken(before, req.body.user.email, KeyOf(req)))
    => /\ Answered /\ Code = 0
       /\ resp[1].data = Entity(rows[KeyOf(req)])
       /\ \A f \in Fields5 :
             rows[KeyOf(req)][f] = IF IsZero(req.body.user[f], f)
                                   THEN before[KeyOf(req)][f]
                                   ELSE req.body.user[f]
       /\ \A i \in DOMAIN rows \ {KeyOf(req)} : rows[i] = before[i]

IsList == req.op \in {"GenericViewSet.List", "UserViewSet.List"}

\* the request's equality filters: every parameter but the reserved ones and,
\* for the User override, keyword
EqualityFilters ==
    DOMAIN req.q \ ({"page", "page_size", "limit", "offset", "order_by", "ordering"}
                      \cup (IF req.op = "UserViewSet.List" THEN {"keyword"} ELSE {}))

\* the live rows that satisfy all the equality filters (and, in the User
\* override, the keyword search)
FilteredIds ==
    {i \in LiveIds(before) :
        /\ \A k \in EqualityFilters : before[i][k] = Head(req.q[k])
        /\ (req.op = "UserViewSet.List" /\ Query(req.q, "keyword") # <<>>) =>
              \E f \in {"name", "email", "phone"} :
                  Contains(before[i][f], Query(req.q, "keyword"))}

\* the filtered rows in the order the request asks for
FilteredOrdered ==
    SortedRows(before, FilteredIds,
               ApplyFilters(BlankQuery, GetFilterParams(req.q, {})))

\* the entries of list at the positions [offset, offset + limit), counted from 0
Slice(list, offset, limit) ==
    LET keep == {i \in 1..Len(list) : i > offset /\ i <= offset + limit}
    IN  [j \in 1..Cardinality(keep) |-> list[j + Len(list) - Cardinality(keep)
                                               - Cardinality({i \in 1..Len(list) : i > offset + limit})]]

\* C9: in a List response, pagination.total is the number of live rows that
\* satisfy all equality filters, whatever the pagination parameters; data is
\* the window [offset, offset+limit) of the filtered, ordered rows, and holds
\* at most pageSize <= 100 entities.
C9_ListTotalAndWindow ==
    (IsList /\ Answered /\ Code = 0)
    => LET intent == GetPaginationParams(req.q)
       IN  /\ resp[1].pagination[1].Total = Cardinality(FilteredIds)
           /\ resp[1].data.rows = Slice(FilteredOrdered, intent.Offset, intent.Limit)
           /\ Len(resp[1].data.rows) <= resp[1].pagination[1].PageSize
           /\ resp[1].pagination[1].PageSize <= 100

\* C10: Retrieve answers 400 for an empty or non-numeric id, 404 for a
\* well-formed id without a live row, 500 for another storage fault, and
\* otherwise code 0 with the entity whose primary key is id.
C10_RetrieveOutcome ==
    req.op = "GenericViewSet.Retrieve" =>
        /\ Answered
        /\ Code = IF req.id = <<>> \/ Atoi(req.id).err THEN 400
                  ELSE IF req.fault # 0 THEN 500
                  ELSE IF KeyOf(req) \notin LiveIds(before) THEN 404
                  ELSE 0
        /\ Code = 0 => resp[1].data = Entity(before[KeyOf(req)])


-----------------------------------------------------------------------------
(* Claims about Create, Update and Delete *)

IsCreate == req.op \in {"GenericViewSet.Create", "UserViewSet.Create"}
NumericId == ~Atoi(req.id).err
ById == req.op \in {"GenericViewSet.Retrieve", "GenericViewSet.Update",
                    "GenericViewSet.Delete", "UserViewSet.Activate",
                    "UserViewSet.Deactivate", "UserViewSet.ResetPassword"}
WithEmail(table, email) == {i \in DOMAIN table : table[i].email = email}

\* C11: a Create that answers code 0 carries a newly generated id that no
\* other row has; a following Retrieve by that id (GET /:id) returns the
\* entity with the payload's name and email; with UserViewSet.Create the
\* stored status is "inactive" when the payload has none, else the payload's.
C11_RoundTrip ==
    (IsCreate /\ Answered /\ Code = 0)
    => LET made == resp[1].data.row
           again == GenericViewSet_Retrieve(rows, nextId, Itoa(made.id), 0, 0).resp
       IN  /\ made.id \notin DOMAIN before
           /\ made.id \in DOMAIN rows
           /\ \A i \in DOMAIN rows : rows[i].id = made.id => i = made.id
           /\ Routed("GET", "/:id", "GenericViewSet.Retrieve")
           /\ Len(again) = 1 /\ again[1].code = 0
           /\ again[1].data.row.id = made.id
           /\ again[1].data.row.name = req.body.user.name
           /\ again[1].data.row.email = req.body.user.email
           /\ req.op = "UserViewSet.Create"
                 => rows[made.id].status = IF req.body.user.status = <<>>
                                           THEN S_inactive
                                           ELSE req.body.user.status

\* C12: a Retrieve, Create, Update, Delete, Activate or Deactivate that ends
\* with a non-zero code leaves every row as it was; Delete of an id without a
\* live row answers code 404 under HTTP 404; Update answers 404 for a missing
\* row and 400 for an undecodable body.
C12_FailureLeavesRows ==
    /\ ((IsCreate \/ (ById /\ req.op # "UserViewSet.ResetPassword"))
          /\ Answered /\ Code # 0) => rows = before
    /\ (req.op = "GenericViewSet.Delete" /\ NumericId /\ req.fault = 0
          /\ KeyOf(req) \notin LiveIds(before))
          => Answered /\ Code = 404 /\ resp[1].status = 404 /\ rows = before
    /\ (req.op = "GenericViewSet.Update" /\ NumericId /\ req.fault = 0
          /\ KeyOf(req) \notin LiveIds(before))
          => Answered /\ Code = 404 /\ rows = before
    /\ (req.op = "GenericViewSet.Update" /\ OnLiveRow(req) /\ req.fault = 0
          /\ BindError(req.body))
          => Answered /\ Code = 400 /\ rows = before

C12_Witness ==
    /\ req.op = "GenericViewSet.Delete" /\ NumericId /\ req.fault = 0
    /\ LiveIds(before) # {} /\ KeyOf(req) \notin LiveIds(before)
    /\ Answered /\ Code = 404 /\ rows = before

\* a Delete by a numeric id that answered code 0 has marked that row deleted
DeleteMarks ==
    (req.op = "GenericViewSet.Delete" /\ NumericId /\ Answered /\ Code = 0)
    => KeyOf(req) \in DOMAIN rows /\ rows[KeyOf(req)].deleted

\* a request by the id of a deleted row is answered 404 (500 when its lookup
\* faults), and leaves the rows alone
DeletedIsGone ==
    (ById /\ NumericId /\ KeyOf(req) \in DOMAIN before /\ before[KeyOf(req)].deleted
       /\ req.fault = 0)
    => Answered /\ Code = 404 /\ rows = before

\* the same for the lookup helper, whatever routes are mounted
DeletedIsGoneForHelper ==
    \A i \in DOMAIN rows :
        rows[i].deleted =>
            LET found == GetObjectOr404(rows, Itoa(i), FALSE)
            IN  ~found.ok /\ Len(found.written) = 1 /\ found.written[1].code = 404

\* a List never returns a deleted row nor counts one
DeletedNotListed ==
    (IsList /\ Answered /\ Code = 0)
    => /\ \A j \in 1..Len(resp[1].data.rows) :
             LET r == resp[1].data.rows[j]
             IN  r.id \in LiveIds(before) /\ r = before[r.id]
       /\ resp[1].pagination[1].Total <= Cardinality(FilteredIds)

\* a deleted row stays deleted, every row keeps its id, and a new row's id is
\* one no row had
StaysDeleted ==
    /\ DOMAIN rows \subseteq DOMAIN rows'
    /\ \A i \in DOMAIN rows : rows'[i].id = i /\ (rows[i].deleted => rows'[i].deleted)
    /\ nextId' >= nextId /\ nextId' > Len(rows')

\* C13: after a Delete(id) that answered code 0, in every later state
\* Retrieve, Update, Delete and the lookup helper answer 404 for that id, no
\* List returns or counts the row, and the id is never used again.
C13_DeletedForGood ==
    /\ [](DeleteMarks /\ DeletedIsGone /\ DeletedIsGoneForHelper /\ DeletedNotListed)
    /\ [][StaysDeleted]_vars

C13_Witness ==
    /\ req.op = "GenericViewSet.Retrieve" /\ NumericId /\ req.fault = 0
    /\ KeyOf(req) \in DOMAIN before /\ before[KeyOf(req)].deleted
    /\ Len(before) = 2 /\ Answered /\ Code = 404

\* C14: a Create with the email of a row an earlier Create stored is rejected,
\* and the table keeps exactly one row with that email: UserViewSet.Create
\* answers 400 with the duplicate message, GenericViewSet.Create answers 500.
C14_DuplicateEmail ==
    (IsCreate /\ ~BindError(req.body) /\ req.fault = 0
       /\ \E i \in LiveIds(before) : before[i].email = req.body.user.email)
    => /\ Answered
       /\ req.op = "UserViewSet.Create"
             => Code = 400 /\ resp[1].msg = "email already registered"
       /\ req.op = "GenericViewSet.Create" => Code = 500
       /\ rows = before
       /\ Cardinality(WithEmail(rows, req.body.user.email)) = 1

C14_Witness ==
    /\ req.op = "UserViewSet.Create" /\ ~BindError(req.body) /\ req.fault = 0
    /\ \E i \in LiveIds(before) : before[i].email = req.body.user.email
    /\ Answered /\ Code = 400

-----------------------------------------------------------------------------
(* Claims about responses and storage faults *)

IsHandler == req.op \notin {None, "NoRoute"}
UsesLookup == req.op \in {"UserViewSet.Activate", "UserViewSet.Deactivate",
                          "UserViewSet.ResetPassword"}

\* C16: every handler, on every path, has written exactly one envelope when
\* it returns (the paths for an empty id, which the router never delivers,
\* included).
C16_OneEnvelope ==
    /\ IsHandler => Len(resp) = 1
    /\ Len(GenericViewSet_Retrieve(rows, nextId, <<>>, 0, 0).resp) = 1
    /\ Len(GenericViewSet_Update(rows, nextId, <<>>, NoBody, 0, 0).resp) = 1
    /\ Len(GenericViewSet_Delete(rows, nextId, <<>>, 0, 0).resp) = 1

C16_Witness ==
    /\ req.op = "UserViewSet.Activate" /\ ~NumericId
    /\ Len(resp) = 1 /\ resp[1].code = 400

WellFormed(e) ==
    \/ e.code = 0 /\ e.status = 200
    \/ e.code \in {400, 404, 500} /\ e.status = e.code

\* C17: every envelope is a success (code 0, HTTP 200) or an error with code
\* 400, 404 or 500 under the HTTP status of the same number; pagination is
\* present exactly on successful List responses.
C17_Envelopes ==
    IsHandler =>
        \A i \in 1..Len(resp) :
            /\ WellFormed(resp[i])
            /\ resp[i].pagination # <<>> <=> (IsList /\ resp[i].code = 0)

C17_Witness ==
    /\ IsList /\ Answered /\ Code = 0 /\ resp[1].status = 200
    /\ resp[1].pagination # <<>> /\ Len(resp[1].data.rows) > 0

\* the lookup by the path string found a row
LookupFound == FirstByString(before, req.id, FALSE, req.odd).err = "nil"

\* the storage call that req.fault numbers was issued
FaultIssued ==
    CASE IsList -> TRUE
      [] req.op = "GenericViewSet.Retrieve" -> TRUE
      [] req.op = "GenericViewSet.Create" -> ~BindError(req.body)
      [] req.op = "UserViewSet.Create" ->
            /\ ~BindError(req.body)
            /\ req.fault = 2 =>
                  \A i \in LiveIds(before) : before[i].email # req.body.user.email
      [] req.op = "GenericViewSet.Update" ->
            \/ req.fault = 1
            \/ /\ LookupFound /\ ~BindError(req.body)
               /\ req.fault = 3 => resp[1].code # 500
      [] req.op = "GenericViewSet.Delete" -> req.fault = 1 \/ LookupFound
      [] req.op \in {"UserViewSet.Activate", "UserViewSet.Deactivate"} ->
            NumericId /\ (req.fault = 2 => KeyOf(req) \in LiveIds(before))
      [] req.op = "UserViewSet.ResetPassword" -> NumericId
      [] req.op = "UserViewSet.GetStats" -> TRUE
      [] OTHER -> FALSE

\* C18: when a storage call issued for the request reports a fault, the
\* request ends with code 500 and never with code 0.
C18_FaultsSurface ==
    (IsHandler /\ req.fault # 0 /\ FaultIssued) => Answered /\ Code = 500

\* the same List request handled again on the table as it is now
ListAgain(fault) ==
    IF req.op = "GenericViewSet.List" THEN GenericViewSet_List(rows, nextId, req.q, fault)
    ELSE UserViewSet_List(rows, nextId, req.q, fault)

C20_LookupHelper ==
    /\ \A param \in IdParams, fault \in BOOLEAN :
          LET found == GetObjectOr404(rows, param, fault)
              key == Atoi(param).val
          IN  /\ found.ok <=> (~Atoi(param).err /\ ~fault /\ key \in LiveIds(rows))
              /\ found.ok => found.obj = rows[key] /\ found.written = <<>>
              /\ ~found.ok =>
                    /\ Len(found.written) = 1
                    /\ found.written[1].code = IF Atoi(param).err THEN 400
                                               ELSE IF fault THEN 500 ELSE 404
                    /\ found.written[1].status = found.written[1].code
    /\ UsesLookup =>
          LET found == GetObjectOr404(before, req.id, req.fault = 1)
          IN  ~found.ok => resp = found.written /\ rows = before

C20_Witness ==
    /\ req.op = "UserViewSet.Deactivate" /\ NumericId /\ req.fault = 0
    /\ LiveIds(before) # {} /\ KeyOf(req) \notin LiveIds(before)
    /\ Len(resp) = 1 /\ resp[1].code = 404 /\ rows = before

-----------------------------------------------------------------------------
(* Claims about concurrent requests *)

Finished(p) == calls[p].pc = "done"
CodeOf(p) == calls[p].resp[1].code
EmailOf(p) == calls[p].body.user.email
Winners(email) ==
    {p \in DOMAIN calls : Finished(p) /\ EmailOf(p) = email /\ CodeOf(p) = 0}

\* C15: in every interleaving of concurrent UserViewSet.Create requests with
\* the same email at most one answers code 0 and at most one row with that
\* email is stored; every other one answers 400 or 500, never code 0.
C15_OneWinner ==
    \A p \in DOMAIN calls :
        LET email == EmailOf(p)
        IN  /\ Cardinality(Winners(email)) <= 1
            /\ Cardinality(WithEmail(rows, email)) <= 1
            /\ Finished(p) =>
                  /\ Len(calls[p].resp) = 1
                  /\ CodeOf(p) \in {0, 400, 500}
                  /\ CodeOf(p) = 0 =>
                        WithEmail(rows, email) = {calls[p].resp[1].data.row.id}
                  /\ (Winners(email) \ {p} # {}) => CodeOf(p) \in {400, 500}

\* two requests with one email that both passed the pre-check: one is stored,
\* the other is refused by the unique index
C15_Witness ==
    \E p, o \in DOMAIN calls :
        /\ p # o /\ EmailOf(p) = EmailOf(o)
        /\ Finished(p) /\ Finished(o)
        /\ calls[p].fault = 0 /\ calls[o].fault = 0
        /\ CodeOf(p) = 0 /\ CodeOf(o) = 500

\* a step in which call p returns
Returns(p) == calls[p].pc # "done" /\ calls'[p].pc = "done"

\* the primary key a call is about
KeyOfCall(p) == Atoi(calls[p].id).val

\* C23: whenever Update(id) responds with code 0 (none of its storage calls
\* faulting), the entity in the response is the stored row whose primary key
\* is id, in its post-update state, in every interleaving with concurrent
\* requests, a Delete(id) between Update's write and its re-fetch included:
\* Update never answers code 0 with a blank, zero-valued entity.
C23_UpdateAnswersStoredRow ==
    [][\A p \in DOMAIN calls :
          (/\ calls[p].op = "GenericViewSet.Update"
           /\ calls[p].fault = 0
           /\ Returns(p)
           /\ calls'[p].resp[1].code = 0)
          => /\ calls'[p].resp[1].data.row # BlankUser
             /\ KeyOfCall(p) \in LiveIds(rows')
             /\ calls'[p].resp[1].data.row = rows'[KeyOfCall(p)]]_vars

\* the status a call of Activate or Deactivate sets
StatusOf(p) == IF calls[p].op = "UserViewSet.Activate" THEN S_active ELSE S_inactive

\* C24: Activate (Deactivate) on an existing user sets that row's status to
\* "active" ("inactive") and changes no other field of that row and no other
\* row, in every interleaving with a concurrent Update of the same row: a
\* field changed by an Update that commits between Activate's read and its
\* full-row save is not overwritten with the old value. ResetPassword
\* changes no row at all.
C24_StatusOnly ==
    [][\A p \in DOMAIN calls :
          /\ (/\ calls[p].op \in StatusOps
              /\ Returns(p)
              /\ calls'[p].resp[1].code = 0
              /\ KeyOfCall(p) \in LiveIds(rows))
             => rows' = [rows EXCEPT ![KeyOfCall(p)].status = StatusOf(p)]
          /\ (calls[p].op = "UserViewSet.ResetPassword" /\ Returns(p))
             => rows' = rows]_vars

\* C26: in every successful List response the number of entities in data is
\* at most pagination.total, also when other requests create or delete
\* matching rows concurrently: the count and the find of one List request
\* observe the same set of rows.
C26_DataWithinTotal ==
    \A p \in DOMAIN calls :
        (calls[p].op \in ListOps /\ Finished(p) /\ CodeOf(p) = 0)
        => Len(calls[p].resp[1].data.rows) <= calls[p].resp[1].pagination[1].Total

-----------------------------------------------------------------------------
(* Claims about requests served one after the other *)

\* C27: in every sequential run of Create and Delete requests,
\* UserViewSet.Create never responds 500 because of the uniqueness of email
\* (its storage calls not faulting otherwise): a collision with a stored
\* row, a soft-deleted one included, is answered with the 400 of the
\* pre-check, and a Create whose email the pre-check finds free is persisted.
C27_NoDuplicate500 ==
    \A p \in DOMAIN calls :
        (/\ calls[p].op = "UserViewSet.Create"
         /\ calls[p].fault = 0
         /\ Finished(p))
        => /\ CodeOf(p) # 500
           /\ CodeOf(p) \in {0, 400}
           /\ CodeOf(p) = 0 => calls[p].resp[1].data.row.id \in DOMAIN rows

=============================================================================
